---------------------------- MODULE Spec2Model ----------------------------
(***************************************************************************)
(* Model of the resumable chunked upload hook useChunkedUpload             *)
(* (src/src/api/hooks/useUpload.ts) together with the remote upload        *)
(* service it talks to.                                                    *)
(*                                                                         *)
(* Client side.  The hook owns the React state `progress` and the refs     *)
(* isUploadingRef and abortControllerRef.  uploadFile and resumeUpload are *)
(* async functions: a call runs synchronously up to its first await, and   *)
(* every answer of the server resumes it up to the next await.  A "run"    *)
(* is one such activation; its local variables are the fields of a run     *)
(* record.  AbortController objects are numbered by the run that created   *)
(* them.  A request carries the signal of the controller that              *)
(* abortControllerRef held when the request was issued.                    *)
(*                                                                         *)
(* JavaScript scheduling.  abort() rejects the promises of the requests    *)
(* that carry the signal; the rejected runs resume (in their catch block)  *)
(* as microtasks, before any other event is handled.  This is the          *)
(* MicrotasksPending guard of the event actions.  state updates of         *)
(* setProgress are applied in call order and are taken to be rendered      *)
(* before the next event, so cancelUpload reads the current uploadId.      *)
(* Where one continuation writes the status twice in a row ("uploading"    *)
(* and, the chunk loop having nothing to send, "completing"), the model    *)
(* takes two steps with nothing in between, so that every status written   *)
(* is the status of a state.                                               *)
(*                                                                         *)
(* Server side.  The service is not part of the repository; it is          *)
(* modelled from the contracts of spec.md section 4.2.  The service        *)
(* handles a request and the client receives the answer in one step; a     *)
(* request that is aborted has either been handled before the abort or     *)
(* never reaches the service.  Only the sessions that the hook can still   *)
(* name (through progress.uploadId, a running activation or a pending      *)
(* DELETE) and the session of an earlier page are kept in the model; the   *)
(* id of a session nothing names any more may be handed out again.         *)
(***************************************************************************)
EXTENDS Integers, Sequences, FiniteSets, TLC

\* ------------------------------------------------------------ bounds
\* largest number of chunks of a file
MaxChunks == 2
\* number of uploadFile / resumeUpload activations that pass their guards
MaxRuns == 3
\* number of cancelUpload calls
MaxCancels == 2

\* ------------------------------------------------------------ constants
MB == 1024 * 1024
CHUNK_SIZE == 50 * 1024 * 1024

\* Math.round(0 / 0) is NaN; NaN is represented by a number outside 0..100
NaN == -1
\* null for upload ids and file paths
Null == 0
NoError == "null"

Min(a, b) == IF a <= b THEN a ELSE b

\* Math.ceil(a / b) for a >= 0, b > 0
CeilDiv(a, b) == (a \div b) + (IF a % b = 0 THEN 0 ELSE 1)

\* ---- double arithmetic
\* The percentages are computed on doubles.  The model computes the
\* same digits on integers, in limbs small enough that no intermediate
\* value leaves 32 bits.
\* 2^k
RECURSIVE Pow2(_)
Pow2(k) == IF k = 0 THEN 1 ELSE 2 * Pow2(k - 1)

\* the number of binary digits of k
RECURSIVE BitLen(_)
BitLen(k) == IF k = 0 THEN 0 ELSE 1 + BitLen(k \div 2)

\* A double between 2^-e and 2^(1-e) is held as its 53-digit significand
\* in three limbs, most significant first, of 17, 18 and 18 binary digits:
\* the value is (a * Limb^2 + b * Limb + c) * 2^(-52 - e).
Limb == Pow2(18)

\* k more binary digits of r / d (0 <= r < d), appended to the digits acc;
\* r + r is compared with d without being computed
RECURSIVE DivBits(_, _, _, _)
DivBits(r, d, k, acc) ==
    IF k = 0 THEN [q |-> acc, r |-> r]
    ELSE IF r >= d - r
         THEN DivBits(r - (d - r), d, k - 1, 2 * acc + 1)
         ELSE DivBits(r + r, d, k - 1, 2 * acc)

\* the position e of the first binary digit 1 of r / d (0 < r < d), and the
\* remainder after it
RECURSIVE Lead(_, _, _)
Lead(r, d, e) ==
    IF r >= d - r THEN [r |-> r - (d - r), e |-> e + 1]
    ELSE Lead(r + r, d, e + 1)

\* a significand after a digit was added to its last place
Carry(a, b, c, e) ==
    LET b1 == IF c = Limb THEN b + 1 ELSE b
        a1 == IF b1 = Limb THEN a + 1 ELSE a
    IN  [a |-> IF a1 = Pow2(17) THEN Pow2(16) ELSE a1,
         b |-> b1 % Limb, c |-> c % Limb,
         e |-> IF a1 = Pow2(17) THEN e - 1 ELSE e]

\* num / den in double arithmetic (round to nearest, ties to even), for
\* integers num > 0, den > 0
FDiv(num, den) ==
    LET k   == num \div den
        ld  == IF k = 0 THEN Lead(num, den, 0) ELSE [r |-> num % den, e |-> 1 - BitLen(k)]
        hi  == IF k = 0 THEN DivBits(ld.r, den, 16, 1)
                        ELSE DivBits(ld.r, den, 17 - BitLen(k), k)
        mid == DivBits(hi.r, den, 18, 0)
        lo  == DivBits(mid.r, den, 18, 0)
        up  == lo.r > den - lo.r \/ (lo.r = den - lo.r /\ lo.q % 2 = 1)
    IN  Carry(hi.q, mid.q, lo.q + (IF up THEN 1 ELSE 0), ld.e)

\* x * 100 in double arithmetic.  The product of the significand and 100 has
\* 59 or 60 digits; its last s = 6 or 7 digits are rounded away.  The result
\* is not normalised: its value is (a * Limb^2 + b * Limb + c) * 2^(-52 - e).
FMul100(x) ==
    LET c1   == 100 * x.c
        b1   == 100 * x.b + c1 \div Limb
        a1   == 100 * x.a + b1 \div Limb
        s    == BitLen(a1) - 17
        low  == (c1 % Limb) % Pow2(s)
        kept == (c1 % Limb) \div Pow2(s)
        half == Pow2(s - 1)
        up   == low > half \/ (low = half /\ kept % 2 = 1)
        c2   == (kept + (IF up THEN 1 ELSE 0)) * Pow2(s)
        b2   == (b1 % Limb) + (IF c2 = Limb THEN 1 ELSE 0)
    IN  [a |-> a1 + (IF b2 = Limb THEN 1 ELSE 0),
         b |-> b2 % Limb, c |-> c2 % Limb, e |-> x.e]

\* Math.round(x), the integer nearest to x, the larger one at a tie, for a
\* double 0 < x < 2^15: the limbs b and c are less than one unit of a
MathRound(x) ==
    IF x.e >= 9 THEN 0
    ELSE (x.a + Pow2(15 + x.e)) \div Pow2(16 + x.e)

\* Math.round((num / den) * 100) for integers num >= 0, den >= 0;
\* 0 / 0 is NaN.
RoundPct(num, den) ==
    IF den = 0 THEN NaN
    ELSE IF num = 0 THEN 0
    ELSE MathRound(FMul100(FDiv(num, den)))

\* ---- double arithmetic on binary digits
\* A double >= 0 is held as [b |-> digits, x |-> exponent]: the digits are
\* those of an integer, least significant first, and the value is that
\* integer times 2^x.  Every operation computes the exact result and rounds
\* it to 53 significant digits, to nearest, ties to even.

\* the w lowest binary digits of k >= 0, least significant first
NatBits(k, w) == [i \in 1..w |-> (k \div Pow2(i - 1)) % 2]

\* the integer with the binary digits b
RECURSIVE BitsNat(_)
BitsNat(b) == IF b = <<>> THEN 0 ELSE Head(b) + 2 * BitsNat(Tail(b))

\* b without its leading digits 0
Strip(b) ==
    LET ones == {i \in 1..Len(b) : b[i] = 1}
    IN  IF ones = {} THEN <<>>
        ELSE SubSeq(b, 1, CHOOSE i \in ones : \A j \in ones : j <= i)

\* b times 2^k
ShiftLeft(b, k) == [i \in 1..k |-> 0] \o b

\* a + b; the carry into a place is 1 when a place below it produces a
\* carry that every place in between passes on
AddBits(a, b) ==
    LET A(i) == IF i <= Len(a) THEN a[i] ELSE 0
        B(i) == IF i <= Len(b) THEN b[i] ELSE 0
        carry(i) == IF \E j \in 1..(i - 1) :
                          /\ A(j) + B(j) = 2
                          /\ \A k \in (j + 1)..(i - 1) : A(k) + B(k) >= 1
                    THEN 1 ELSE 0
        n == (IF Len(a) >= Len(b) THEN Len(a) ELSE Len(b)) + 1
    IN  [i \in 1..n |-> (A(i) + B(i) + carry(i)) % 2]

\* The number with the digits b, taken in groups of 16 digits from group j
\* down to group 1, divided by n < 2^7 with the remainder r carried in: the
\* quotient, appended above acc, and the remainder
RECURSIVE DivBitsBy(_, _, _, _, _)
DivBitsBy(b, n, j, r, acc) ==
    IF j = 0 THEN [q |-> acc, r |-> r]
    ELSE LET group == [i \in 1..16 |->
                          IF 16 * (j - 1) + i <= Len(b)
                          THEN b[16 * (j - 1) + i] ELSE 0]
             cur == r * Pow2(16) + BitsNat(group)
         IN  DivBitsBy(b, n, j - 1, cur % n, NatBits(cur \div n, 16) \o acc)

\* the exact value (digits b times 2^x, plus something below the last digit
\* when sticky) rounded to 53 significant digits
Round53(b, x, sticky) ==
    LET s == Strip(b)
        d == Len(s) - 53
    IN  IF d <= 0 THEN [b |-> s, x |-> x]
        ELSE LET kept == SubSeq(s, d + 1, Len(s))
                 rest == sticky \/ \E i \in 1..(d - 1) : s[i] = 1
                 up   == s[d] = 1 /\ (rest \/ kept[1] = 1)
             IN  [b |-> IF up THEN AddBits(kept, <<1>>) ELSE kept,
                  x |-> x + d]

\* the double of an integer k, 0 <= k < 2^16
Dbl(k) == [b |-> Strip(NatBits(k, 16)), x |-> 0]

\* v / n for a double v and an integer n, 0 < n < 2^7
DDivInt(v, n) ==
    LET s   == ShiftLeft(v.b, 64)
        res == DivBitsBy(s, n, (Len(s) + 15) \div 16, 0, <<>>)
    IN  Round53(res.q, v.x - 64, res.r # 0)

\* c + v for an integer c, 0 <= c < 2^16, and a double v with v.x <= 0
DAddInt(c, v) ==
    Round53(AddBits(v.b, ShiftLeft(Strip(NatBits(c, 16)), 0 - v.x)), v.x, FALSE)

\* v * 100
DMul100(v) ==
    Round53(AddBits(AddBits(ShiftLeft(v.b, 6), ShiftLeft(v.b, 5)),
                    ShiftLeft(v.b, 2)),
            v.x, FALSE)

\* Math.round(v): the integer nearest to v, the larger one at a tie
DRound(v) ==
    IF v.x >= 0 THEN BitsNat(ShiftLeft(v.b, v.x))
    ELSE LET k == 0 - v.x
         IN  BitsNat(SubSeq(v.b, k + 1, Len(v.b)))
             + (IF k <= Len(v.b) THEN v.b[k] ELSE 0)


\* ------------------------------------------------------------ chunk planning
TotalChunks(size) == CeilDiv(size, CHUNK_SIZE)

\* (a variant that lists the indices from the last to the first)
ChunkIndices_Descending(totalChunks) == [i \in 1..totalChunks |-> totalChunks - i]

\* (a variant that counts the indices from 1)
ChunkIndices_FromOne(totalChunks) == [i \in 1..totalChunks |-> i]

\* Array.from({ length: totalChunks }, (_, i) => i)
ChunkIndices(totalChunks) == [i \in 1..totalChunks |-> i - 1]

ChunkStart(chunkIndex) == chunkIndex * CHUNK_SIZE

\* (a variant that does not cap the last chunk at the end of the file)
ChunkEnd_NoCap(chunkIndex, size) == ChunkStart(chunkIndex) + CHUNK_SIZE

\* (a variant that reports the start of the chunk as its end)
ChunkEnd_Start(chunkIndex, size) == ChunkStart(chunkIndex)

ChunkEnd(chunkIndex, size) == Min(ChunkStart(chunkIndex) + CHUNK_SIZE, size)

\* (a variant that sends every chunk again)
MissingChunks_All(totalChunks, receivedChunks) == ChunkIndices(totalChunks)

\* chunkIndices.filter((idx) => !receivedChunks.has(idx))
MissingChunks(totalChunks, receivedChunks) ==
    SelectSeq(ChunkIndices(totalChunks), LAMBDA idx : idx \notin receivedChunks)

\* ------------------------------------------------------------ inputs
\* file sizes offered to uploadFile: empty, and MaxChunks chunks of which the
\* last one is partial
Sizes == {0, MaxChunks * CHUNK_SIZE - 30 * MB}

Runs == 1..MaxRuns
\* upload ids: LeftId is a session left on the service by an earlier page,
\* the others are handed out by init requests
LeftId == 1
UploadIds == 1..(MaxRuns + 1)

NonTerminal == {"initializing", "uploading", "completing"}
Terminal == {"complete", "error", "cancelled"}

VARIABLES
    progress,            \* useState<UploadProgress>
    isUploadingRef,      \* isUploadingRef.current
    abortControllerRef,  \* abortControllerRef.current: 0 (null) or a controller
    aborted,             \* the controllers whose signal is aborted
    runs,                \* the activations of uploadFile / resumeUpload
    nRuns,               \* number of activations so far
    dels,                \* DELETE requests of cancelUpload awaiting their answer
    nCancels,            \* number of cancelUpload calls so far
    server,              \* the upload sessions of the remote service
    last,                \* how the activation that returned last ended
    uploads,             \* useMultiFileUpload: useState<Map<string, UploadProgress>>
    overallProgress,     \* useMultiFileUpload: overallProgress
    batch,               \* the activation of uploadFiles
    folder               \* FolderUpload: its state, and the activation of
                         \* handleStartUpload

vars == <<progress, isUploadingRef, abortControllerRef, aborted, runs, nRuns,
          dels, nCancels, server, last, uploads, overallProgress, batch, folder>>

\* the state of useChunkedUpload and of the service
hookVars == <<progress, isUploadingRef, abortControllerRef, aborted, runs, nRuns,
              dels, nCancels, server, last>>

\* the state of useMultiFileUpload
batchVars == <<uploads, overallProgress, batch>>

IdleProgress ==
    [uploadId |-> Null, totalSize |-> 0, uploadedSize |-> 0, percentage |-> 0,
     chunksTotal |-> 0, chunksUploaded |-> 0, status |-> "idle",
     error |-> NoError, filePath |-> Null]

NoResp ==
    [upload_id |-> Null, total_size |-> 0, total_chunks |-> 0,
     chunks_received |-> {}, is_complete |-> FALSE, file_path |-> Null]

NoRun ==
    [kind |-> "none", pc |-> "none", size |-> 0, uploadId |-> Null,
     totalChunks |-> 0, todo |-> <<>>, receivedChunks |-> {},
     idx |-> 0, sig |-> 0, phase |-> "none",
     reqs |-> <<>>, slices |-> <<>>, acks |-> 0, pubSizes |-> <<>>,
     hadChunks |-> {}, clean |-> TRUE, solo |-> TRUE, cancelledAt |-> -1,
     served |-> FALSE]

NoSession ==
    [exists |-> FALSE, total_size |-> 0, total_chunks |-> 0, received |-> {},
     is_complete |-> FALSE]

Active(r) == runs[r].pc # "none"

NoLast ==
    [run |-> 0, kind |-> "none", at |-> "none", cause |-> "none",
     outcome |-> "none", ret |-> Null, uploadId |-> Null, acks |-> 0,
     served |-> FALSE, alone |-> TRUE, deleted |-> FALSE]

\* the upload ids that the hook can still name in a request, and LeftId
Names(P, rs, ds) ==
    ({LeftId, P.uploadId} \cup {rs[q].uploadId : q \in Runs}
       \cup {ds[i] : i \in 1..Len(ds)}) \ {Null}

\* the sessions of srv that stay in the model
Forget(srv, P, rs, ds) ==
    [id \in UploadIds |-> IF id \in Names(P, rs, ds) THEN srv[id] ELSE NoSession]

\* a rejected promise is waiting for its catch block to run, or a
\* continuation is in the middle of its synchronous code
MicrotasksPending == \E r \in Runs : runs[r].phase \in {"aborted", "ready"}


\* ------------------------------------------------------------ client helpers
\* axios.post / axios.get with { signal: abortControllerRef.current.signal }:
\* the request carries the signal of controller ctrl.  A request whose signal
\* is already aborted is rejected without being sent.
Issue(rn, kind, idx, ctrl) ==
    [rn EXCEPT !.pc = kind, !.idx = idx, !.sig = ctrl,
               !.phase = IF ctrl \in aborted THEN "aborted" ELSE "sent",
               !.reqs = IF ctrl \in aborted THEN @ ELSE Append(@, <<kind, idx>>)]

\* the activation has returned: nothing of it is left
Finish(rn) == NoRun

\* axios.isCancel(error) || error.message === "Upload cancelled"
IsCancel(error) == error = "aborted"

\* the setProgress of the catch block
CatchProgress(P, cancel) ==
    IF cancel
    THEN [P EXCEPT !.status = "cancelled", !.error = "Upload cancelled"]
    ELSE [P EXCEPT !.status = "error", !.error = "Upload failed"]

\* abortControllerRef.current?.signal.aborted
SignalAborted(ctrl) == ctrl \in aborted

\* The head of the chunk loop and what follows it when the loop is over:
\* the abort check and the next chunk request, or "completing" and the
\* complete request.  Yields the run, the progress, whether the catch block
\* released isUploadingRef, and how the activation ended if it did.
LoopHead(rn, P) ==
    IF rn.todo = <<>>
    THEN [run |-> Issue(rn, "complete", 0, abortControllerRef),
          progress |-> [P EXCEPT !.status = "completing"],
          release |-> FALSE, end |-> "none"]
    ELSE IF SignalAborted(abortControllerRef)
    THEN [run |-> Finish(rn),
          progress |-> CatchProgress(P, TRUE),
          release |-> TRUE, end |-> "cancelled"]
    ELSE LET chunkIndex == Head(rn.todo)
             start == ChunkStart(chunkIndex)
             end == ChunkEnd(chunkIndex, rn.size)
         IN  [run |-> [Issue(rn, "chunk", chunkIndex, abortControllerRef)
                          EXCEPT !.slices = Append(@, <<start, end>>)],
              progress |-> P,
              release |-> FALSE, end |-> "none"]

\* The chunk loop is entered after "uploading" was written: the activation
\* goes on at once when there is a chunk to send, and in a step of its own
\* when there is none.
Enter(rn, P) ==
    IF rn.todo = <<>>
    THEN [run |-> [rn EXCEPT !.pc = "loop", !.phase = "ready"],
          progress |-> P, release |-> FALSE, end |-> "none"]
    ELSE LoopHead(rn, P)

\* another uploadFile / resumeUpload / resetProgress call is made while the
\* runs of rs are active
Disturb(rs) ==
    [q \in Runs |-> IF rs[q].pc # "none"
                    THEN [rs[q] EXCEPT !.clean = FALSE] ELSE rs[q]]

\* ------------------------------------------------------------ uploadFile
UploadFile(size, hasProject) ==
    /\ ~MicrotasksPending
    /\ IF ~hasProject
       THEN /\ progress' = [progress EXCEPT !.status = "error",
                                            !.error = "No project ID provided"]
            /\ runs' = Disturb(runs)
            /\ UNCHANGED <<isUploadingRef, abortControllerRef, aborted, nRuns, last>>
       ELSE IF isUploadingRef
       THEN /\ runs' = Disturb(runs)
            /\ UNCHANGED <<progress, isUploadingRef, abortControllerRef, aborted,
                           nRuns, last>>
       ELSE /\ nRuns < MaxRuns
            /\ LET r == nRuns + 1
                   totalChunks == TotalChunks(size)
                   rn == [NoRun EXCEPT !.kind = "upload", !.size = size,
                                       !.solo = \A q \in Runs : ~Active(q),
                                       !.totalChunks = totalChunks,
                                       !.pubSizes = <<0>>]
               IN  /\ nRuns' = r
                   /\ isUploadingRef' = TRUE
                   /\ abortControllerRef' = r
                   /\ aborted' = {}
                   /\ last' = NoLast
                   /\ progress' = [uploadId |-> Null, totalSize |-> size,
                                   uploadedSize |-> 0, percentage |-> 0,
                                   chunksTotal |-> totalChunks,
                                   chunksUploaded |-> 0,
                                   status |-> "initializing",
                                   error |-> NoError, filePath |-> Null]
                   /\ runs' = [Disturb(runs) EXCEPT ![r] = Issue(rn, "init", 0, r)]
    /\ UNCHANGED <<dels, nCancels>>
    /\ UNCHANGED batchVars
    /\ server' = Forget(server, progress', runs', dels')

\* ------------------------------------------------------------ resumeUpload
ResumeUpload(uploadId, size) ==
    /\ ~MicrotasksPending
    /\ IF isUploadingRef
       THEN /\ runs' = Disturb(runs)
            /\ UNCHANGED <<isUploadingRef, abortControllerRef, aborted, nRuns, last>>
       ELSE /\ nRuns < MaxRuns
            /\ LET r == nRuns + 1
                   rn == [NoRun EXCEPT !.kind = "resume", !.size = size,
                                       !.solo = \A q \in Runs : ~Active(q),
                                       !.uploadId = uploadId]
               IN  /\ nRuns' = r
                   /\ isUploadingRef' = TRUE
                   /\ abortControllerRef' = r
                   /\ aborted' = {}
                   /\ last' = NoLast
                   /\ runs' = [Disturb(runs) EXCEPT ![r] = Issue(rn, "status", 0, r)]
    /\ UNCHANGED <<progress, dels, nCancels>>
    /\ UNCHANGED batchVars
    /\ server' = Forget(server, progress', runs', dels')

\* ------------------------------------------------------------ resetProgress
ResetProgress ==
    /\ ~MicrotasksPending
    /\ progress' = IdleProgress
    /\ runs' = Disturb(runs)
    /\ last' = NoLast
    /\ UNCHANGED <<isUploadingRef, abortControllerRef, aborted, nRuns, dels,
                   nCancels>>
    /\ UNCHANGED batchVars
    /\ server' = Forget(server, progress', runs', dels')

\* ------------------------------------------------------------ the service
\* file_path of a completed upload
FilePath(id) == id

AllChunks(total_chunks) == 0..(total_chunks - 1)

\* an upload id that names no session and that nothing names
FreeIds(srv) ==
    {id \in UploadIds : ~srv[id].exists /\ id \notin Names(progress, runs, dels)}

\* The service handles the request of an activation rn, given its sessions
\* srv.  With accept it carries the request out if the
\* session allows it; otherwise, and whenever the request is not valid, it
\* answers with an error and changes nothing.
Serve(srv, rn, accept) ==
    LET id == rn.uploadId
        nid == CHOOSE n \in FreeIds(srv) : \A m \in FreeIds(srv) : n <= m
        Refuse == [server |-> srv, ok |-> FALSE, resp |-> NoResp]
    IN  CASE rn.pc = "init" ->
               IF accept /\ FreeIds(srv) # {}
               THEN [server |-> [srv EXCEPT ![nid] =
                                   [exists |-> TRUE, total_size |-> rn.size,
                                    total_chunks |-> rn.totalChunks,
                                    received |-> {}, is_complete |-> FALSE]],
                     ok |-> TRUE,
                     resp |-> [NoResp EXCEPT !.upload_id = nid]]
               ELSE Refuse
          [] rn.pc = "chunk" ->
               IF /\ accept
                  /\ srv[id].exists
                  /\ ~srv[id].is_complete
                  /\ rn.idx \in AllChunks(srv[id].total_chunks)
               THEN [server |-> [srv EXCEPT ![id].received = @ \cup {rn.idx}],
                     ok |-> TRUE,
                     resp |-> [NoResp EXCEPT !.upload_id = id]]
               ELSE Refuse
          [] rn.pc = "complete" ->
               IF /\ accept
                  /\ srv[id].exists
                  /\ srv[id].received = AllChunks(srv[id].total_chunks)
               THEN [server |-> [srv EXCEPT ![id].is_complete = TRUE],
                     ok |-> TRUE,
                     resp |-> [NoResp EXCEPT !.upload_id = id,
                                             !.file_path = FilePath(id)]]
               ELSE Refuse
          [] rn.pc = "status" ->
               IF accept /\ srv[id].exists
               THEN [server |-> srv, ok |-> TRUE,
                     resp |-> [upload_id |-> id,
                               total_size |-> srv[id].total_size,
                               total_chunks |-> srv[id].total_chunks,
                               chunks_received |-> srv[id].received,
                               is_complete |-> srv[id].is_complete,
                               file_path |-> IF srv[id].is_complete
                                             THEN FilePath(id) ELSE Null]]
               ELSE Refuse

\* the service handles the requests of the activations of the set Q, in the
\* order of their numbers
RECURSIVE ServeAll(_, _)
ServeAll(srv, Q) ==
    IF Q = {} THEN srv
    ELSE LET r == CHOOSE q \in Q : \A p \in Q : q <= p
         IN  ServeAll(Serve(srv, runs[r], TRUE).server, Q \ {r})

\* ------------------------------------------------------------ cancelUpload
\* controller.abort() rejects the requests that carry its signal
AbortsRequest(sig, ctrl) == sig = ctrl

\* the activations whose request cancelUpload aborts
Hit == {q \in Runs : /\ Active(q)
                     /\ abortControllerRef # Null
                     /\ AbortsRequest(runs[q].sig, abortControllerRef)}

\* served: the service had already handled the aborted requests
CancelUpload(served) ==
    /\ ~MicrotasksPending
    /\ nCancels < MaxCancels
    /\ nCancels' = nCancels + 1
    /\ aborted' = IF abortControllerRef # Null
                  THEN aborted \cup {abortControllerRef} ELSE aborted
    /\ runs' = [q \in Runs |->
                  IF Active(q)
                  THEN [runs[q] EXCEPT
                          !.phase = IF q \in Hit THEN "aborted" ELSE @,
                          !.served = q \in Hit /\ served,
                          !.cancelledAt = IF @ < 0 THEN Len(runs[q].reqs) ELSE @]
                  ELSE runs[q]]
    /\ IF progress.uploadId # Null
       THEN /\ dels' = Append(dels, progress.uploadId)
            /\ UNCHANGED isUploadingRef
       ELSE /\ isUploadingRef' = FALSE
            /\ UNCHANGED dels
    /\ UNCHANGED <<progress, abortControllerRef, nRuns, last>>
    /\ UNCHANGED batchVars
    /\ server' = Forget(ServeAll(server, IF served THEN Hit ELSE {}),
                        progress', runs', dels')

\* (a variant in which a DELETE that fails is reported as an upload error)
AfterDelete_FailureIsError(P, deleted) ==
    IF deleted THEN P ELSE [P EXCEPT !.status = "error", !.error = "Upload failed"]

\* progress when cancelUpload resumes after its DELETE: the catch block only
\* logs the failure
AfterDelete(P, deleted) == P

\* The service answers a pending DELETE (deleted: the session is removed;
\* otherwise the request failed) and cancelUpload resumes after its
\* try / catch.
DeleteAnswer(i, deleted) ==
    /\ ~MicrotasksPending
    /\ i \in 1..Len(dels)
    /\ dels' = [j \in 1..(Len(dels) - 1) |-> IF j < i THEN dels[j] ELSE dels[j + 1]]
    /\ isUploadingRef' = FALSE
    /\ last' = IF deleted /\ last.uploadId = dels[i]
               THEN [last EXCEPT !.deleted = TRUE] ELSE last
    /\ progress' = AfterDelete(progress, deleted)
    /\ UNCHANGED <<abortControllerRef, aborted, runs, nRuns, nCancels>>
    /\ UNCHANGED batchVars
    /\ server' = Forget(IF deleted THEN [server EXCEPT ![dels[i]] = NoSession]
                        ELSE server,
                        progress', runs', dels')

\* ------------------------------------------------------------ continuations
\* progress after the answer to a chunk request (uploadFile)
UploadChunkProgress(P, rn) ==
    LET uploadedSize == ChunkEnd(rn.idx, rn.size)
    IN  [P EXCEPT !.uploadedSize = uploadedSize,
                  !.percentage = RoundPct(uploadedSize, rn.size),
                  !.chunksUploaded = rn.idx + 1]

\* (a variant that reports the offset of the chunk sent last)
ResumeChunkProgress_Offset(P, rn, received) ==
    [P EXCEPT !.uploadedSize = ChunkStart(rn.idx),
              !.percentage = RoundPct(Cardinality(received), rn.totalChunks),
              !.chunksUploaded = Cardinality(received)]

\* progress after the answer to a chunk request (resumeUpload);
\* received is receivedChunks after receivedChunks.add(chunkIndex)
ResumeChunkProgress(P, rn, received) ==
    LET uploadedSize == Cardinality(received) * CHUNK_SIZE
    IN  [P EXCEPT !.uploadedSize = Min(uploadedSize, rn.size),
                  !.percentage = RoundPct(Cardinality(received), rn.totalChunks),
                  !.chunksUploaded = Cardinality(received)]

\* (a variant that keeps no file path for a session already complete)
ResumeStatusProgress_NoPath(uploadId, status) ==
    [uploadId |-> uploadId, totalSize |-> status.total_size,
     uploadedSize |-> Cardinality(status.chunks_received) * CHUNK_SIZE,
     percentage |-> RoundPct(Cardinality(status.chunks_received),
                             status.total_chunks),
     chunksTotal |-> status.total_chunks,
     chunksUploaded |-> Cardinality(status.chunks_received),
     status |-> "uploading", error |-> NoError, filePath |-> Null]

\* the setProgress of resumeUpload after the status answer
ResumeStatusProgress(uploadId, status) ==
    IF status.is_complete
    THEN [uploadId |-> uploadId, totalSize |-> status.total_size,
          uploadedSize |-> status.total_size, percentage |-> 100,
          chunksTotal |-> status.total_chunks,
          chunksUploaded |-> status.total_chunks, status |-> "complete",
          error |-> NoError, filePath |-> status.file_path]
    ELSE [uploadId |-> uploadId, totalSize |-> status.total_size,
          uploadedSize |-> Cardinality(status.chunks_received) * CHUNK_SIZE,
          percentage |-> RoundPct(Cardinality(status.chunks_received),
                                  status.total_chunks),
          chunksTotal |-> status.total_chunks,
          chunksUploaded |-> Cardinality(status.chunks_received),
          status |-> "uploading", error |-> NoError, filePath |-> Null]

\* the same without percentage: 100
CompleteProgress_KeepPercentage(P, file_path) ==
    [P EXCEPT !.status = "complete", !.filePath = file_path]

\* the setProgress after the answer to the complete request
CompleteProgress(P, file_path) ==
    [P EXCEPT !.status = "complete", !.percentage = 100, !.filePath = file_path]

\* what the activation does with the answer resp to its request
OnAnswer(rn, resp) ==
    CASE rn.pc = "init" ->
           Enter([rn EXCEPT !.uploadId = resp.upload_id,
                            !.todo = ChunkIndices(rn.totalChunks)],
                 [progress EXCEPT !.uploadId = resp.upload_id,
                                  !.status = "uploading"])
      [] rn.pc = "chunk" /\ rn.kind = "upload" ->
           LET P == UploadChunkProgress(progress, rn)
           IN  LoopHead([rn EXCEPT !.todo = Tail(@), !.acks = @ + 1,
                                   !.pubSizes = Append(@, P.uploadedSize)],
                        P)
      [] rn.pc = "chunk" /\ rn.kind = "resume" ->
           LET received == rn.receivedChunks \cup {rn.idx}
               P == ResumeChunkProgress(progress, rn, received)
           IN  LoopHead([rn EXCEPT !.todo = Tail(@), !.acks = @ + 1,
                                   !.receivedChunks = received,
                                   !.pubSizes = Append(@, P.uploadedSize)],
                        P)
      [] rn.pc = "complete" ->
           [run |-> Finish(rn),
            progress |-> CompleteProgress(progress, resp.file_path),
            release |-> TRUE, end |-> "complete"]
      [] rn.pc = "status" ->
           LET P == ResumeStatusProgress(rn.uploadId, resp)
           IN  IF resp.is_complete
               THEN [run |-> Finish(rn), progress |-> P,
                     release |-> TRUE, end |-> "complete"]
               ELSE Enter([rn EXCEPT !.receivedChunks = resp.chunks_received,
                                     !.hadChunks = resp.chunks_received,
                                     !.totalChunks = resp.total_chunks,
                                     !.todo = MissingChunks(resp.total_chunks,
                                                            resp.chunks_received),
                                     !.pubSizes = <<P.uploadedSize>>],
                          P)

\* the catch block without isUploadingRef.current = false
OnError_KeepFlag(rn, error) ==
    [run |-> Finish(rn),
     progress |-> CatchProgress(progress, IsCancel(error)),
     release |-> FALSE,
     end |-> IF IsCancel(error) THEN "cancelled" ELSE "error"]

\* the catch block: error is "fail" (the request failed) or "aborted"
OnError(rn, error) ==
    [run |-> Finish(rn),
     progress |-> CatchProgress(progress, IsCancel(error)),
     release |-> TRUE,
     end |-> IF IsCancel(error) THEN "cancelled" ELSE "error"]

\* the value the activation returns
Returned(end, resp) == IF end = "complete" THEN resp.file_path ELSE Null

Resume(r, res, cause, resp) ==
    /\ runs' = [runs EXCEPT ![r] = res.run]
    /\ progress' = res.progress
    /\ isUploadingRef' = IF res.release THEN FALSE ELSE isUploadingRef
    /\ last' = IF res.end = "none" THEN last
               ELSE [run |-> r, kind |-> runs[r].kind, at |-> runs[r].pc,
                     cause |-> cause, outcome |-> res.end,
                     ret |-> Returned(res.end, resp),
                     uploadId |-> runs[r].uploadId, acks |-> runs[r].acks,
                     served |-> runs[r].served,
                     alone |-> runs[r].solo /\ runs[r].clean,
                     deleted |-> FALSE]

\* The service handles the request of activation r and r resumes after its
\* await with the answer, or in its catch block when the request failed.
Answer(r, accept) ==
    LET out == Serve(server, runs[r], accept)
    IN  /\ ~MicrotasksPending
        /\ Active(r)
        /\ runs[r].phase = "sent"
        /\ IF out.ok
           THEN Resume(r, OnAnswer(runs[r], out.resp), "ok", out.resp)
           ELSE Resume(r, OnError(runs[r], "fail"), "fail", NoResp)
        /\ UNCHANGED <<abortControllerRef, aborted, nRuns, dels, nCancels>>
        /\ UNCHANGED batchVars
        /\ server' = Forget(out.server, progress', runs', dels')

\* the activation r, whose request was aborted, resumes in its catch block
Rejected(r) ==
    /\ Active(r)
    /\ runs[r].phase = "aborted"
    /\ Resume(r, OnError(runs[r], "aborted"), "aborted", NoResp)
    /\ UNCHANGED <<abortControllerRef, aborted, nRuns, dels, nCancels>>
    /\ UNCHANGED batchVars
    /\ server' = Forget(server, progress', runs', dels')

\* the activation r, with no chunk to send, goes on to the complete request
Continue(r) ==
    /\ Active(r)
    /\ runs[r].phase = "ready"
    /\ Resume(r, LoopHead(runs[r], progress), "ok", NoResp)
    /\ UNCHANGED <<abortControllerRef, aborted, nRuns, dels, nCancels>>
    /\ UNCHANGED batchVars
    /\ server' = Forget(server, progress', runs', dels')

\* ------------------------------------------------------------ useMultiFileUpload
\* the initial value of overallProgress, and what reset sets
IdleOverall ==
    [totalFiles |-> 0, completedFiles |-> 0, percentage |-> 0, status |-> "idle"]

\* new Map()
NoUploads == [n \in {} |-> IdleProgress]

NoBatch ==
    [pc |-> "none", files |-> <<>>, i |-> 0, uploadId |-> Null, todo |-> <<>>,
     idx |-> 0, filePaths |-> <<>>, reqs |-> <<>>, answered |-> 0,
     outcomes |-> <<>>]

\* newMap.set(name, entry)
SetEntry(U, name, entry) ==
    [n \in DOMAIN U \cup {name} |-> IF n = name THEN entry ELSE U[n]]

\* the entry that uploadFiles sets when it starts a file
InitEntry(size, totalChunks) ==
    [uploadId |-> Null, totalSize |-> size, uploadedSize |-> 0, percentage |-> 0,
     chunksTotal |-> totalChunks, chunksUploaded |-> 0,
     status |-> "initializing", error |-> NoError, filePath |-> Null]

\* the final status of overallProgress
FinalStatus(completedFiles, nFiles) ==
    IF completedFiles = nFiles THEN "complete" ELSE "error"

\* The head of the file loop: the entry of the next file and its init
\* request, or, after the last file, the final status and the return.
\* b.i is the number of the next file.
NextFile(b, U, O) ==
    IF b.i > Len(b.files)
    THEN [batch |-> [b EXCEPT !.pc = "done"],
          uploads |-> U,
          overall |-> [O EXCEPT !.status =
                          FinalStatus(O.completedFiles, Len(b.files))]]
    ELSE LET file == b.files[b.i]
             totalChunks == TotalChunks(file.size)
         IN  [batch |-> [b EXCEPT !.pc = "init", !.uploadId = Null,
                                  !.todo = ChunkIndices(totalChunks),
                                  !.reqs = Append(@, <<b.i, "init", 0>>)],
              uploads |-> SetEntry(U, file.name, InitEntry(file.size, totalChunks)),
              overall |-> O]

\* a chunk loop that sends the chunks that are left without awaiting them
NextChunk_Parallel(b, U, O) ==
    [batch |-> [b EXCEPT !.pc = "complete",
                         !.reqs = @ \o [k \in 1..Len(b.todo) |->
                                           <<b.i, "chunk", b.todo[k]>>]
                                    \o << <<b.i, "complete", 0>> >>],
     uploads |-> U, overall |-> O]

\* the head of the chunk loop of a file, and the complete request after it
NextChunk(b, U, O) ==
    IF b.todo = <<>>
    THEN [batch |-> [b EXCEPT !.pc = "complete",
                              !.reqs = Append(@, <<b.i, "complete", 0>>)],
          uploads |-> U, overall |-> O]
    ELSE [batch |-> [b EXCEPT !.pc = "chunk", !.idx = Head(b.todo),
                              !.reqs = Append(@, <<b.i, "chunk", Head(b.todo)>>)],
          uploads |-> U, overall |-> O]

\* uploadFiles(files), up to its first await
UploadFiles(files) ==
    /\ batch.pc = "none"
    /\ LET O == [totalFiles |-> Len(files), completedFiles |-> 0,
                 percentage |-> 0, status |-> "uploading"]
           res == NextFile([NoBatch EXCEPT !.files = files, !.i = 1], uploads, O)
       IN  /\ batch' = res.batch
           /\ uploads' = res.uploads
           /\ overallProgress' = res.overall
    /\ UNCHANGED <<hookVars, folder>>

\* uploadFiles after the answer to the request it awaits; upload_id is the
\* id the service hands out when the request is an init request
OnBatchAnswer(b, U, O, upload_id) ==
    LET file == b.files[b.i]
        name == file.name
    IN  CASE b.pc = "init" ->
               NextChunk([b EXCEPT !.uploadId = upload_id],
                         IF name \in DOMAIN U
                         THEN SetEntry(U, name, [U[name] EXCEPT
                                                   !.uploadId = upload_id,
                                                   !.status = "uploading"])
                         ELSE U,
                         O)
          [] b.pc = "chunk" ->
               LET uploadedSize == ChunkEnd(b.idx, file.size)
               IN  NextChunk([b EXCEPT !.todo = Tail(@)],
                             IF name \in DOMAIN U
                             THEN SetEntry(U, name, [U[name] EXCEPT
                                     !.uploadedSize = uploadedSize,
                                     !.percentage = RoundPct(uploadedSize, file.size),
                                     !.chunksUploaded = b.idx + 1])
                             ELSE U,
                             O)
          [] b.pc = "complete" ->
               NextFile([b EXCEPT !.filePaths = Append(@, FilePath(b.uploadId)),
                                  !.outcomes = Append(@, "complete"),
                                  !.i = @ + 1],
                        IF name \in DOMAIN U
                        THEN SetEntry(U, name, [U[name] EXCEPT
                                                  !.status = "complete",
                                                  !.percentage = 100,
                                                  !.filePath = FilePath(b.uploadId)])
                        ELSE U,
                        [O EXCEPT !.completedFiles = @ + 1,
                                  !.percentage = RoundPct(O.completedFiles + 1,
                                                          Len(b.files))])

\* a catch block that gives up the files that are left
OnBatchError_Stop(b, U, O) ==
    LET name == b.files[b.i].name
    IN  NextFile([b EXCEPT !.outcomes = Append(@, "error"),
                           !.i = Len(b.files) + 1],
                 IF name \in DOMAIN U
                 THEN SetEntry(U, name, [U[name] EXCEPT !.status = "error",
                                                       !.error = "Upload failed"])
                 ELSE U,
                 O)

\* the catch block of the file loop
OnBatchError(b, U, O) ==
    LET name == b.files[b.i].name
    IN  NextFile([b EXCEPT !.outcomes = Append(@, "error"), !.i = @ + 1],
                 IF name \in DOMAIN U
                 THEN SetEntry(U, name, [U[name] EXCEPT !.status = "error",
                                                       !.error = "Upload failed"])
                 ELSE U,
                 O)

\* The request that uploadFiles awaits is answered: the service carries
\* it out (accept) or the request fails.  The service hands out the number
\* of the file as upload id.
BatchAnswer(accept) ==
    /\ batch.pc \in {"init", "chunk", "complete"}
    /\ LET b == [batch EXCEPT !.answered = @ + 1]
           res == IF accept
                  THEN OnBatchAnswer(b, uploads, overallProgress, batch.i)
                  ELSE OnBatchError(b, uploads, overallProgress)
       IN  /\ batch' = res.batch
           /\ uploads' = res.uploads
           /\ overallProgress' = res.overall
    /\ UNCHANGED <<hookVars, folder>>

\* reset(), called when no uploadFiles activation is under way
BatchReset ==
    /\ batch.pc \in {"none", "done"}
    /\ uploads' = NoUploads
    /\ overallProgress' = IdleOverall
    /\ batch' = NoBatch
    /\ UNCHANGED <<hookVars, folder>>

\* ------------------------------------------------------------ FolderUpload
\* The component FolderUpload uses one useChunkedUpload hook.  The user is
\* logged in and the project of the page exists (projectId is set), so
\* handleStartUpload reaches its file loop without awaiting.

\* FolderUpload after construction: no files selected, no activation of
\* handleStartUpload.  files are the sizes of videoFiles; index is the
\* number of the file under way and run the activation of uploadFile that
\* handleStartUpload awaits; started, outcomes and calls record the files
\* it has started, how they ended and the calls of onUploadComplete.
NoFolder ==
    [pc |-> "idle", files |-> <<>>, index |-> 0, run |-> 0, paths |-> <<>>,
     uploadedPaths |-> <<>>, currentFileIndex |-> 0, isCancelledRef |-> FALSE,
     started |-> <<>>, outcomes |-> <<>>, calls |-> <<>>]

\* isUploading of FolderUpload
IsUploading(P) == P.status \in {"uploading", "initializing", "completing"}

\* overallProgress of FolderUpload for n video files, completedFiles paths
\* and the percentage of the hook:
\* Math.round(((completedFiles + currentProgress / 100) / n) * 100)
FolderOverall(n, completedFiles, percentage) ==
    IF n = 0 THEN 0
    ELSE LET currentProgress == IF percentage = NaN THEN 0 ELSE percentage
         IN  DRound(DMul100(DDivInt(DAddInt(completedFiles,
                                            DDivInt(Dbl(currentProgress), 100)),
                                    n)))

\* ------------------------------------------------------------ specification
\* the file of the session an earlier page left on the service
LeftSize == MaxChunks * CHUNK_SIZE - 30 * MB

\* The hook after construction.  The service holds one session (id 1) of an
\* earlier page, with the chunks of odd index received.
Init ==
    /\ progress = IdleProgress
    /\ isUploadingRef = FALSE
    /\ abortControllerRef = Null
    /\ aborted = {}
    /\ runs = [r \in Runs |-> NoRun]
    /\ nRuns = 0
    /\ dels = <<>>
    /\ nCancels = 0
    /\ server = [id \in UploadIds |->
                   IF id = LeftId
                   THEN [exists |-> TRUE, total_size |-> LeftSize,
                         total_chunks |-> TotalChunks(LeftSize),
                         received |-> {i \in AllChunks(TotalChunks(LeftSize)) :
                                          i % 2 = 1},
                         is_complete |-> FALSE]
                   ELSE NoSession]
    /\ last = NoLast
    /\ uploads = NoUploads
    /\ overallProgress = IdleOverall
    /\ batch = NoBatch
    /\ folder = NoFolder

UploadFileCall ==
    /\ \E size \in Sizes, hasProject \in BOOLEAN : UploadFile(size, hasProject)
    /\ UNCHANGED folder

\* resumeUpload is called for the session of the earlier page or for the one
\* that progress shows, with the file the session was created for
ResumeUploadCall ==
    /\ \E uploadId \in {LeftId, progress.uploadId} \ {Null} :
           ResumeUpload(uploadId, IF server[uploadId].exists
                                  THEN server[uploadId].total_size ELSE 0)
    /\ UNCHANGED folder

ResetProgressCall == ResetProgress /\ UNCHANGED folder

CancelUploadCall ==
    /\ \E served \in BOOLEAN : CancelUpload(served)
    /\ UNCHANGED folder

AnswerStep ==
    /\ \E r \in Runs, accept \in BOOLEAN : Answer(r, accept)
    /\ UNCHANGED folder

RejectedStep ==
    /\ \E r \in Runs : Rejected(r)
    /\ UNCHANGED folder

ContinueStep ==
    /\ \E r \in Runs : Continue(r)
    /\ UNCHANGED folder

DeleteStep ==
    /\ \E i \in 1..Len(dels), deleted \in BOOLEAN : DeleteAnswer(i, deleted)
    /\ UNCHANGED folder

Next ==
    \/ UploadFileCall
    \/ ResumeUploadCall
    \/ ResetProgressCall
    \/ CancelUploadCall
    \/ AnswerStep
    \/ RejectedStep
    \/ ContinueStep
    \/ DeleteStep

Spec == Init /\ [][Next]_vars

\* Every request of an activation is answered or fails (the service and the
\* network settle it), and an activation whose awaited promise has settled,
\* or whose request was aborted, is resumed (the microtask queue is run).
Settled(r) ==
    /\ WF_vars(\E accept \in BOOLEAN : Answer(r, accept) /\ UNCHANGED folder)
    /\ WF_vars(Rejected(r) /\ UNCHANGED folder)
    /\ WF_vars(Continue(r) /\ UNCHANGED folder)

\* number of activations in the behaviours checked for termination
LiveRuns == 2

LiveUploadFile == UploadFileCall /\ nRuns' <= LiveRuns

LiveResumeUpload == ResumeUploadCall /\ nRuns' <= LiveRuns

LiveNext ==
    \/ LiveUploadFile
    \/ LiveResumeUpload
    \/ ResetProgressCall
    \/ CancelUploadCall
    \/ AnswerStep
    \/ RejectedStep
    \/ ContinueStep
    \/ DeleteStep

\* the hook with at most LiveRuns activations, every request settled and
\* every settled activation resumed
SpecLive == Init /\ [][LiveNext]_vars /\ \A r \in Runs : Settled(r)

\* ------------------------------------------------------------ chunk planning alone
\* a file of 2000 MB: 40 chunks, and a percentage that ends in .5 after
\* several of them
LargeSize == 40 * CHUNK_SIZE

\* file sizes for the chunk planning: every multiple of 5 MB up to MaxChunks
\* chunks, the sizes next to a chunk boundary, and one large file
PlanSizes ==
    {s \in {k * CHUNK_SIZE + d : k \in 0..MaxChunks,
                                 d \in {5 * j * MB : j \in -9..0} \cup {-1, 1}} :
       s >= 0 /\ s <= MaxChunks * CHUNK_SIZE}
    \cup {LargeSize}

PlanUpload ==
    /\ \E size \in PlanSizes : UploadFile(size, TRUE)
    /\ UNCHANGED folder

PlanAnswer ==
    /\ \E r \in Runs : Answer(r, TRUE)
    /\ UNCHANGED folder

PlanNext ==
    \/ PlanUpload
    \/ PlanAnswer
    \/ ContinueStep

\* uploads of files of the sizes PlanSizes that the service accepts
SpecPlan == Init /\ [][PlanNext]_vars

\* ------------------------------------------------------------ batches alone
\* largest number of files of a batch
MaxFiles == 3

FileNames == {"a.mp4", "b.mp4"}

\* the batches handed to uploadFiles
Batches ==
    UNION {[1..n -> [name : FileNames, size : Sizes]] : n \in 0..MaxFiles}

UploadFilesCall == \E files \in Batches : UploadFiles(files)

BatchAnswerStep == \E accept \in BOOLEAN : BatchAnswer(accept)

BatchNext ==
    \/ UploadFilesCall
    \/ BatchAnswerStep
    \/ BatchReset

\* one useMultiFileUpload hook; uploadFiles is called on a new or reset hook
SpecBatch == Init /\ [][BatchNext]_vars

\* ------------------------------------------------------------ FolderUpload alone
\* the promise of uploadFile that handleStartUpload awaits is settled and
\* the rest of handleStartUpload is waiting to run
FolderPending == folder.pc = "awaiting" /\ ~Active(folder.run)

\* the video files of a dropped folder
FolderBatches == UNION {[1..n -> Sizes] : n \in 1..MaxFiles}

\* processFiles: a folder is dropped or chosen (the drop zone and the input
\* are disabled while isUploading)
ProcessFiles(files) ==
    /\ ~IsUploading(progress)
    /\ ~FolderPending
    /\ folder' = [folder EXCEPT !.pc = "idle", !.files = files, !.index = 0,
                                !.run = 0, !.paths = <<>>,
                                !.uploadedPaths = <<>>, !.currentFileIndex = 0,
                                !.started = <<>>, !.outcomes = <<>>,
                                !.calls = <<>>]
    /\ ResetProgress

\* handleClearSelection (the Clear button is shown with the file summary)
ClearSelection ==
    /\ folder.files # <<>>
    /\ ~IsUploading(progress)
    /\ progress.status # "complete"
    /\ ~FolderPending
    /\ folder' = NoFolder
    /\ ResetProgress

\* the Try Again button, shown in status error
TryAgain ==
    /\ progress.status = "error"
    /\ ~FolderPending
    /\ ResetProgress
    /\ UNCHANGED folder

\* The file loop of handleStartUpload from the head of the iteration for
\* file number index, with the local paths: it calls uploadFile for that
\* file and awaits it, or leaves the loop (no file left, or cancelled) and
\* calls onUploadComplete when paths is not empty.  F is the folder state
\* so far.
FileLoop(F, index, paths) ==
    IF index <= Len(F.files) /\ ~F.isCancelledRef
    THEN /\ UploadFile(F.files[index], TRUE)
         /\ nRuns' = nRuns + 1
         /\ folder' = [F EXCEPT !.pc = "awaiting", !.index = index,
                                !.run = nRuns + 1, !.paths = paths,
                                !.currentFileIndex = index - 1,
                                !.started = Append(@, index)]
    ELSE /\ folder' = [F EXCEPT !.pc = "done", !.paths = paths,
                                !.calls = IF paths # <<>>
                                          THEN Append(@, paths) ELSE @]
         /\ UNCHANGED hookVars

\* handleStartUpload: the Upload button, shown with the file summary when
\* there are video files and enabled unless isUploading
HandleStartUpload ==
    /\ folder.files # <<>>
    /\ ~IsUploading(progress)
    /\ progress.status # "complete"
    /\ folder.pc # "awaiting"
    /\ ~MicrotasksPending
    /\ FileLoop([folder EXCEPT !.isCancelledRef = FALSE, !.started = <<>>,
                               !.outcomes = <<>>, !.calls = <<>>],
                1, <<>>)
    /\ UNCHANGED batchVars

\* handleStartUpload leaving its loop whenever uploadFile returns no path
StartUploadContinue_StopOnError ==
    /\ FolderPending
    /\ ~MicrotasksPending
    /\ LET filePath == last.ret
           paths == IF filePath # Null THEN Append(folder.paths, filePath)
                    ELSE folder.paths
           F == [folder EXCEPT !.outcomes = Append(@, [status |-> last.outcome,
                                                       uploadId |-> last.uploadId]),
                               !.uploadedPaths = IF filePath # Null
                                                 THEN paths ELSE @]
       IN  IF filePath = Null
           THEN FileLoop(F, Len(folder.files) + 1, paths)
           ELSE FileLoop(F, folder.index + 1, paths)
    /\ UNCHANGED batchVars

\* handleStartUpload after uploadFile has returned filePath (last.ret)
StartUploadContinue ==
    /\ FolderPending
    /\ ~MicrotasksPending
    /\ LET filePath == last.ret
           paths == IF filePath # Null THEN Append(folder.paths, filePath)
                    ELSE folder.paths
           F == [folder EXCEPT !.outcomes = Append(@, [status |-> last.outcome,
                                                       uploadId |-> last.uploadId]),
                               !.uploadedPaths = IF filePath # Null
                                                 THEN paths ELSE @]
       IN  IF filePath = Null /\ folder.isCancelledRef
           THEN FileLoop(F, Len(folder.files) + 1, paths)
           ELSE FileLoop(F, folder.index + 1, paths)
    /\ UNCHANGED batchVars

\* the Cancel Upload button, shown while isUploading
CancelClick(served) ==
    /\ IsUploading(progress)
    /\ ~FolderPending
    /\ folder' = [folder EXCEPT !.isCancelledRef = TRUE]
    /\ CancelUpload(served)

ProcessFilesStep == \E files \in FolderBatches : ProcessFiles(files)

CancelClickStep == \E served \in BOOLEAN : CancelClick(served)

\* a request of the hook is answered
FolderAnswerStep == ~FolderPending /\ AnswerStep

FolderDeleteStep == ~FolderPending /\ DeleteStep

FolderNext ==
    \/ ProcessFilesStep
    \/ ClearSelection
    \/ TryAgain
    \/ HandleStartUpload
    \/ StartUploadContinue
    \/ CancelClickStep
    \/ FolderAnswerStep
    \/ FolderDeleteStep
    \/ RejectedStep
    \/ ContinueStep

\* one FolderUpload component with its hook
SpecFolder == Init /\ [][FolderNext]_vars

\* ------------------------------------------------------------ claims
UploadRuns == {r \in Runs : runs[r].kind = "upload"}
ResumeRuns == {r \in Runs : runs[r].kind = "resume"}

\* the indices of the chunk requests that activation r has sent, in order
SentChunks(r) ==
    LET cs == SelectSeq(runs[r].reqs, LAMBDA q : q[1] = "chunk")
    IN  [i \in 1..Len(cs) |-> cs[i][2]]

\* C1: the chunks that uploadFile slices are the ranges
\* [i * CHUNK_SIZE, min((i + 1) * CHUNK_SIZE, size)), i = 0, 1, ...: they
\* start at 0, each starts where the one before ends, none is empty, all but
\* possibly the last have length CHUNK_SIZE, and when the loop is over they
\* end at size and their number is the least n with n * CHUNK_SIZE >= size.
C1_ChunksCoverFile ==
    \A r \in UploadRuns :
        LET sl == runs[r].slices
            n == Len(sl)
            size == runs[r].size
        IN  /\ \A i \in 1..n :
                  /\ sl[i][1] = (i - 1) * CHUNK_SIZE
                  /\ sl[i][2] = IF i * CHUNK_SIZE <= size THEN i * CHUNK_SIZE ELSE size
                  /\ sl[i][1] < sl[i][2]
                  /\ sl[i][2] <= size
                  /\ i > 1 => sl[i][1] = sl[i - 1][2]
                  /\ i < n => sl[i][2] - sl[i][1] = CHUNK_SIZE
            /\ runs[r].pc = "complete" =>
                  /\ n * CHUNK_SIZE >= size
                  /\ n > 0 => (n - 1) * CHUNK_SIZE < size
                  /\ n = 0 => size = 0
                  /\ n > 0 => sl[n][2] = size
                  /\ n = runs[r].totalChunks

\* a file of several chunks with a partial last chunk has been sliced
C1_Witness ==
    \E r \in UploadRuns :
        /\ runs[r].pc = "complete"
        /\ Len(runs[r].slices) >= 2
        /\ runs[r].size % CHUNK_SIZE # 0

\* C2: an uploadFile run sends its chunk requests in the order 0, 1, 2, ...,
\* with no index skipped or repeated, and sends the request for chunk n + 1
\* only after chunk n was answered with success: the number of chunk
\* requests sent exceeds the number of answered ones by one exactly while a
\* chunk request is outstanding, and never otherwise.
C2_ChunksInOrder ==
    \A r \in UploadRuns :
        LET sent == SentChunks(r)
        IN  /\ \A i \in 1..Len(sent) : sent[i] = i - 1
            /\ Len(sent) <= runs[r].totalChunks
            /\ Len(sent) = runs[r].acks + (IF runs[r].pc = "chunk" THEN 1 ELSE 0)

\* the second chunk of an upload is in flight after the first was answered
C2_Witness ==
    \E r \in UploadRuns :
        /\ runs[r].pc = "chunk"
        /\ runs[r].phase = "sent"
        /\ runs[r].acks = 1
        /\ SentChunks(r) = <<0, 1>>

\* C6: a resumeUpload run whose status answer lists the chunks R of N sends
\* chunk requests for indices of {0..N-1} \ R only, in ascending order, none
\* twice and none skipped, one at a time; when it goes on to the complete
\* request it has sent exactly {0..N-1} \ R.
C6_ResumeSendsMissing ==
    \A r \in ResumeRuns :
        LET sent == SentChunks(r)
            missing == (0..(runs[r].totalChunks - 1)) \ runs[r].hadChunks
            sentSet == {sent[i] : i \in 1..Len(sent)}
        IN  /\ sentSet \subseteq missing
            /\ \A i \in 1..Len(sent) : \A j \in 1..Len(sent) :
                  i < j => sent[i] < sent[j]
            /\ \A m \in missing : \A i \in 1..Len(sent) :
                  m < sent[i] => m \in sentSet
            /\ Len(sent) = runs[r].acks + (IF runs[r].pc = "chunk" THEN 1 ELSE 0)
            /\ runs[r].pc = "complete" => sentSet = missing

\* a resumed session that had chunk 1 but not chunk 0 goes on to complete
C6_Witness ==
    \E r \in ResumeRuns :
        /\ runs[r].pc = "complete"
        /\ runs[r].hadChunks = {1}
        /\ SentChunks(r) = <<0>>

\* the steps of the status that the state machine allows
StatusPath ==
    {<<"initializing", "uploading">>, <<"uploading", "completing">>,
     <<"completing", "complete">>} \cup (NonTerminal \X {"error", "cancelled"})

\* C3: while an uploadFile run is under way and no other uploadFile,
\* resumeUpload or resetProgress call is made during it, the status only
\* moves along initializing -> uploading -> completing -> complete, or from
\* one of the first three to error or cancelled: no state is skipped and
\* none is entered from a later one.
C3_StatusPath ==
    [][\A r \in UploadRuns :
          (runs[r].clean /\ (Active(r)' => runs'[r].clean)) =>
              \/ progress'.status = progress.status
              \/ <<progress.status, progress'.status>> \in StatusPath]_vars

\* C4: a cancelUpload call made while the status is initializing, uploading
\* or completing aborts the request in flight of every activation under way
\* at once, and an activation whose request was aborted leaves the status
\* cancelled.
C4_CancelAborts ==
    [][/\ (nCancels' = nCancels + 1 /\ progress.status \in NonTerminal) =>
              \A r \in Runs : Active(r) => runs'[r].phase = "aborted"
       /\ \A r \in Runs :
              (Active(r) /\ runs[r].phase = "aborted" /\ ~Active(r)') =>
                  progress'.status = "cancelled"]_vars

\* the fields that a cancelled session must keep
Kept(P) == <<P.status, P.uploadedSize, P.chunksUploaded, P.filePath>>

\* C5: an activation that was under way when cancelUpload was called sends
\* no request after that call, and once the status is cancelled the answer
\* to a request it sent before the call changes none of status,
\* uploadedSize, chunksUploaded and filePath.
C5_CancelFinal ==
    [][\A r \in Runs :
          (Active(r) /\ runs[r].cancelledAt >= 0) =>
              /\ Active(r)' => Len(runs'[r].reqs) = runs[r].cancelledAt
              /\ (/\ progress.status = "cancelled"
                  /\ nCancels' = nCancels
                  /\ runs'[r].pc # runs[r].pc \/ runs'[r].acks # runs[r].acks)
                     => Kept(progress') = Kept(progress)]_vars

\* C7: when the answer to the status query of a resumeUpload run says
\* is_complete, that very step sets the status complete with the file_path of
\* the answer as filePath and as the value returned, and the run ends having
\* sent the status query and no other request; when the answer does not say
\* is_complete, the run does not end complete at that step.
C7_ResumeOfComplete ==
    [][\A r \in ResumeRuns :
          LET u == runs[r].uploadId
              answered ==
                  \/ last' # last /\ last'.run = r /\ last'.cause = "ok"
                  \/ Active(r)' /\ runs'[r].pc # "status"
          IN  (runs[r].pc = "status" /\ runs[r].phase = "sent" /\ answered) =>
                  IF server[u].is_complete
                  THEN /\ ~Active(r)'
                       /\ runs[r].reqs = << <<"status", 0>> >>
                       /\ last'.outcome = "complete"
                       /\ last'.ret = FilePath(u)
                       /\ progress'.status = "complete"
                       /\ progress'.filePath = FilePath(u)
                  ELSE Active(r)' \/ last'.outcome # "complete"]_vars

\* a resumeUpload run has ended at the status answer of a complete session
C7_Witness ==
    /\ last.kind = "resume"
    /\ last.at = "status"
    /\ last.cause = "ok"
    /\ last.outcome = "complete"
    /\ progress.status = "complete"
    /\ progress.filePath # Null

\* C8 as stated: over an uploadFile run during which no other uploadFile,
\* resumeUpload or resetProgress call is made, uploadedSize never decreases,
\* and it equals totalSize exactly when the status is complete.
C8_SizeIffComplete ==
    [][\A r \in UploadRuns :
          (runs[r].clean /\ Active(r)' /\ runs'[r].clean) =>
              /\ progress'.uploadedSize >= progress.uploadedSize
              /\ progress'.uploadedSize = progress'.totalSize
                     <=> progress'.status = "complete"]_vars

\* C8, amended: the uploadedSize values that an uploadFile run publishes
\* start at 0, never decrease and never exceed the file size, and when the
\* run sends the complete request, the only way to the status complete, the
\* value it published last is the file size. (The converse fails: the two
\* are equal in the states completing, and in error or cancelled after the
\* last chunk, and from the start for an empty file.)
C8_PublishedSizes ==
    \A r \in UploadRuns :
        LET pub == runs[r].pubSizes
        IN  /\ Len(pub) = runs[r].acks + 1
            /\ pub[1] = 0
            /\ \A i \in 1..Len(pub) : pub[i] <= runs[r].size
            /\ \A i \in 1..(Len(pub) - 1) : pub[i] <= pub[i + 1]
            /\ runs[r].pc = "complete" => pub[Len(pub)] = runs[r].size

\* an upload of a non-empty file has published every chunk and awaits the
\* answer to its complete request
C8_Witness ==
    \E r \in UploadRuns :
        /\ runs[r].pc = "complete"
        /\ runs[r].size > 0
        /\ Len(runs[r].pubSizes) = MaxChunks + 1
        /\ progress.uploadedSize = progress.totalSize
        /\ progress.status = "completing"

\* C9: when the init request, a chunk request or the complete request of an
\* uploadFile run fails other than by an abort, the step leaves the status
\* error and filePath null, the run is over and has returned null.
C9_FailureFatal ==
    [][\A r \in UploadRuns :
          (last' # last /\ last'.run = r /\ last'.cause = "fail") =>
              /\ progress'.status = "error"
              /\ progress'.filePath = Null
              /\ last'.ret = Null
              /\ ~Active(r)']_vars

\* an uploadFile run, alone on the hook from start to end, was cancelled
\* after its first last.acks chunks were answered, the aborted request was
\* never handled by the service, and the hook still names the session
CancelledAfterChunks ==
    /\ last.kind = "upload"
    /\ last.cause = "aborted"
    /\ last.at \in {"chunk", "complete"}
    /\ ~last.served
    /\ last.alone
    /\ last.uploadId # Null
    /\ last.uploadId = progress.uploadId

\* C10 as stated: after such a cancellation the service still has the
\* session, with exactly the chunks 0..k-1 recorded.
C10_SessionLeft ==
    CancelledAfterChunks =>
        /\ server[last.uploadId].exists
        /\ server[last.uploadId].received = 0..(last.acks - 1)

\* C10, amended: after such a cancellation the service has the session,
\* with exactly the chunks 0..k-1 recorded, as long as it has not carried
\* out the DELETE request that cancelUpload sends for the session; once it
\* has, the session is gone.
C10_SessionLeftUnlessDeleted ==
    CancelledAfterChunks =>
        /\ server[last.uploadId].exists <=> ~last.deleted
        /\ server[last.uploadId].exists =>
               server[last.uploadId].received = 0..(last.acks - 1)

\* the upload was cancelled after chunk 0; the DELETE request was answered
\* with a failure, and the session is there with chunk 0
C10_Witness ==
    /\ CancelledAfterChunks
    /\ last.acks = 1
    /\ dels = <<>>
    /\ server[last.uploadId].exists
    /\ server[last.uploadId].received = {0}

\* C11: the catch block of a run whose request cancelUpload aborted sets the
\* status cancelled while the DELETE request of that call is still pending,
\* and the answer to a DELETE request, be it a success or a failure, lets
\* cancelUpload return (it releases isUploadingRef) and changes no field of
\* progress: in particular it never sets the status error.
C11_BestEffortDelete ==
    [][/\ \A r \in Runs :
              (Active(r) /\ runs[r].phase = "aborted" /\ ~Active(r)') =>
                  /\ progress'.status = "cancelled"
                  /\ dels' = dels
       /\ (nCancels' = nCancels /\ Len(dels') < Len(dels)) =>
              /\ progress' = progress
              /\ isUploadingRef' = FALSE
              /\ Len(dels') = Len(dels) - 1]_vars

\* an upload was cancelled after its first chunk, the DELETE request has
\* failed (the session is still on the service) and the status is cancelled
C11_Witness ==
    /\ last.cause = "aborted"
    /\ last.outcome = "cancelled"
    /\ last.uploadId # Null
    /\ last.uploadId = progress.uploadId
    /\ nCancels = 1
    /\ dels = <<>>
    /\ ~last.deleted
    /\ progress.status = "cancelled"
    /\ progress.chunksUploaded = 1

\* C12: uploadFiles handles the files one after another: the requests go
\* out in the order of the files, no request for a file goes out before
\* every file ahead of it has ended as complete or error, and at most one
\* request is awaiting its answer.
C12_BatchSequential ==
    /\ Len(batch.reqs) - batch.answered <= 1
    /\ \A j, k \in 1..Len(batch.reqs) : j < k => batch.reqs[j][1] <= batch.reqs[k][1]
    /\ \A k \in 1..Len(batch.reqs) : batch.reqs[k][1] <= Len(batch.outcomes) + 1
    /\ \A f \in 1..Len(batch.outcomes) : batch.outcomes[f] \in {"complete", "error"}

C12_Witness ==
    /\ batch.pc = "chunk" /\ batch.i = 2 /\ batch.idx = 1
    /\ batch.outcomes = <<"complete">>
    /\ \E k \in 1..Len(batch.reqs) : batch.reqs[k] = <<1, "chunk", 1>>
    /\ Len(batch.reqs) - batch.answered = 1

\* the result paths of the files that ended as complete, in the order of
\* the files, from file f on
RECURSIVE CompletePaths(_, _)
CompletePaths(outcomes, f) ==
    IF f > Len(outcomes)
    THEN <<>>
    ELSE (IF outcomes[f] = "complete" THEN <<FilePath(f)>> ELSE <<>>)
         \o CompletePaths(outcomes, f + 1)

\* C13: a failing request of file i marks the entry of file i, and no
\* other entry, as error; the files after it are still uploaded; and
\* uploadFiles returns the paths of the files that ended as complete, in the
\* order of the files.
C13_FailureIsolated ==
    [][/\ (Len(batch'.outcomes) = Len(batch.outcomes) + 1
            /\ batch'.outcomes[Len(batch'.outcomes)] = "error") =>
              LET name == batch.files[batch.i].name
                  next == IF batch.i < Len(batch.files)
                          THEN {batch.files[batch.i + 1].name} ELSE {}
              IN  /\ \A n \in DOMAIN uploads \ ({name} \cup next) :
                         n \in DOMAIN uploads' /\ uploads'[n] = uploads[n]
                  /\ \A n \in DOMAIN uploads' \ {name} :
                         uploads'[n].status # "error" \/
                         (n \in DOMAIN uploads /\ uploads[n].status = "error")
                  /\ name \notin next => uploads'[name].status = "error"
                  /\ batch'.filePaths = batch.filePaths
                  /\ batch.i < Len(batch.files) =>
                         /\ batch'.pc = "init"
                         /\ batch'.reqs[Len(batch'.reqs)] = <<batch.i + 1, "init", 0>>
       /\ batch'.pc = "done" =>
              /\ Len(batch'.outcomes) = Len(batch'.files)
              /\ batch'.filePaths = CompletePaths(batch'.outcomes, 1)
              /\ \A f \in 1..Len(batch'.files) :
                     \E k \in 1..Len(batch'.reqs) : batch'.reqs[k] = <<f, "init", 0>>]_vars

C13_Witness ==
    /\ batch.pc = "done"
    /\ batch.outcomes = <<"complete", "error", "complete">>
    /\ batch.filePaths = <<FilePath(1), FilePath(3)>>
    /\ \E n \in DOMAIN uploads : uploads[n].status = "error"
    /\ \E n \in DOMAIN uploads : uploads[n].status = "complete" /\ uploads[n].filePath = FilePath(3)
    /\ \E k \in 1..Len(batch.reqs) : batch.reqs[k] = <<2, "chunk", 1>>

\* C14: overallProgress.status of useMultiFileUpload is never "error",
\* whatever the outcomes of the files.
C14_OverallNeverError ==
    overallProgress.status # "error"

\* the runs started after every cancelUpload call made so far: those that
\* carry the signal of the controller in place, which no call has aborted
LaterRuns ==
    {r \in Runs : Active(r) /\ runs[r].sig = abortControllerRef
                           /\ abortControllerRef \notin aborted}

\* C15: what is done on behalf of an earlier session changes nothing of a
\* later one: the part of cancelUpload that runs after its DELETE is
\* answered leaves the in-progress flag, the controller and the progress
\* of a run started after that cancelUpload call as they are.
C15_NoSharedState ==
    [][(Len(dels') < Len(dels) /\ LaterRuns # {}) =>
           /\ isUploadingRef' = isUploadingRef
           /\ abortControllerRef' = abortControllerRef
           /\ progress' = progress]_vars

\* a resumeUpload run writes progress for the first time: it sets nothing
\* when it is called, and its first write follows its status answer
FirstWrite ==
    \E r \in Runs : /\ Active(r) /\ runs[r].kind = "resume" /\ runs[r].pc = "status"
                     /\ (~Active(r)' \/ runs'[r].pc # "status")

\* C16: once status is complete, error or cancelled, only the start of a
\* new run (for resumeUpload, the first write of the new run) or
\* resetProgress changes it: no later continuation of a run and no
\* cancelUpload call does.
C16_TerminalFinal ==
    [][(progress.status \in Terminal /\ progress'.status # progress.status) =>
           \/ nRuns' = nRuns + 1
           \/ FirstWrite
           \/ progress' = IdleProgress]_vars

\* C17: status complete implies that every chunk is acknowledged
\* (chunksUploaded = chunksTotal) and that filePath is set.
C17_CompleteIsWhole ==
    progress.status = "complete" =>
        /\ progress.chunksUploaded = progress.chunksTotal
        /\ progress.filePath # Null

\* C18: progress.error is non-null only when status is error.
C18_ErrorOnlyInError ==
    progress.error # NoError => progress.status = "error"

\* the greatest common divisor of a >= 0 and b >= 0
RECURSIVE Gcd(_, _)
Gcd(a, b) == IF b = 0 THEN a ELSE Gcd(b, a % b)

\* round(100 * num / den) in exact arithmetic for num >= 0, den > 0, a
\* value ending in .5 rounded up; the fraction is reduced first and the
\* digits are computed one by one
ExactPct(num, den) ==
    LET g  == Gcd(num, den)
        n  == num \div g
        d  == den \div g
        q  == n \div d
        r  == n % d
        t1 == (10 * r) \div d
        r1 == (10 * r) % d
        t2 == (10 * r1) \div d
        r2 == (10 * r1) % d
    IN  100 * q + 10 * t1 + t2 + (IF 2 * r2 >= d THEN 1 ELSE 0)

\* C19: when chunk i of an uploadFile run on a file of size > 0 is
\* acknowledged, the snapshot published has uploadedSize =
\* min((i+1) * CHUNK_SIZE, size), chunksUploaded = i + 1 and percentage =
\* round(100 * uploadedSize / size), an integer in 0..100.
C19_ChunkSnapshot ==
    [][\A r \in Runs :
          (/\ Active(r) /\ runs[r].kind = "upload" /\ runs[r].pc = "chunk"
           /\ runs[r].size > 0
           /\ runs'[r].acks = runs[r].acks + 1) =>
              LET i == runs[r].idx
                  size == runs[r].size
                  u == IF i + 1 <= size \div CHUNK_SIZE
                       THEN (i + 1) * CHUNK_SIZE ELSE size
              IN  /\ progress'.uploadedSize = u
                  /\ progress'.chunksUploaded = i + 1
                  /\ progress'.percentage \in 0..100
                  /\ progress'.percentage = ExactPct(u, size)]_vars

\* C20: the first uploadedSize that a resumeUpload run publishes is the
\* number of chunks the service reported as received times CHUNK_SIZE,
\* and the values the run publishes after it never decrease.
C20_ResumeSizes ==
    \A r \in ResumeRuns :
        LET pub == runs[r].pubSizes
        IN  (Active(r) /\ runs[r].pc # "status") =>
                /\ Len(pub) = runs[r].acks + 1
                /\ pub[1] = Cardinality(runs[r].hadChunks) * CHUNK_SIZE
                /\ \A i \in 1..(Len(pub) - 1) : pub[i] <= pub[i + 1]

\* a resumed session that had a chunk has published its first size, not
\* zero, and a second one after the missing chunk
C20_Witness ==
    \E r \in ResumeRuns :
        /\ Active(r)
        /\ runs[r].hadChunks # {}
        /\ runs[r].acks = 1
        /\ runs[r].pubSizes[1] = CHUNK_SIZE
        /\ runs[r].pubSizes[2] > CHUNK_SIZE
        /\ progress.uploadedSize = runs[r].pubSizes[2]

\* the file that uploadFiles is transferring, if any
BatchCurrent ==
    IF batch.pc \in {"init", "chunk", "complete"} THEN {batch.files[batch.i]} ELSE {}

\* C21: at every snapshot of a batch the overall percentage is
\* round(100 * (completedFullFiles + currentFileFraction) / totalFiles),
\* where currentFileFraction is uploadedSize / size of the file in transfer
\* (0 when no file is in transfer or the file is empty).
C21_OverallPercentage ==
    (batch.pc # "none" /\ Len(batch.files) > 0) =>
        LET n == Len(batch.files)
            c == overallProgress.completedFiles
        IN  IF \E f \in BatchCurrent : f.size > 0 /\ f.name \in DOMAIN uploads
            THEN \A f \in BatchCurrent :
                    overallProgress.percentage =
                        ExactPct(c * f.size + uploads[f.name].uploadedSize, n * f.size)
            ELSE overallProgress.percentage = ExactPct(c, n)

\* C22: when uploadFiles has returned, uploads holds as many entries as
\* the batch has files, and the entry of each file shows the final status
\* and the result path of that file.
C22_EntryPerFile ==
    batch.pc = "done" =>
        /\ Cardinality(DOMAIN uploads) = Len(batch.files)
        /\ \A f \in 1..Len(batch.files) :
               LET name == batch.files[f].name
               IN  /\ name \in DOMAIN uploads
                   /\ uploads[name].status = batch.outcomes[f]
                   /\ uploads[name].totalSize = batch.files[f].size
                   /\ uploads[name].filePath =
                          IF batch.outcomes[f] = "complete" THEN FilePath(f) ELSE Null

\* C23: at most one activation is under way on the hook at any time, and
\* isUploadingRef is true whenever one is and a call can be made (no catch
\* block of an aborted activation is waiting to run).
C23_MutualExclusion ==
    /\ Cardinality({r \in Runs : Active(r)}) <= 1
    /\ ((\E r \in Runs : Active(r)) /\ ~MicrotasksPending) => isUploadingRef

\* C24: a call of uploadFile made while an activation is under way, with
\* any arguments, starts no activation, sends no request and leaves every
\* field of progress as it was.
C24_RejectedCallNoEffect ==
    [][((\E r \in Runs : Active(r)) /\ UploadFileCall) =>
           /\ progress' = progress
           /\ nRuns' = nRuns
           /\ \A r \in Runs : runs'[r].reqs = runs[r].reqs
           /\ UNCHANGED <<isUploadingRef, abortControllerRef, server>>]_vars

\* C25: cancelUpload called when no activation is under way sends no
\* request (no DELETE, not even for an upload that is complete) and leaves
\* progress as it was.
C25_IdleCancelSilent ==
    [][((\A r \in Runs : ~Active(r)) /\ CancelUploadCall) =>
           /\ dels' = dels
           /\ progress' = progress]_vars

\* C26: every uploadedSize that an activation of uploadFile or of
\* resumeUpload publishes lies between 0 and the size of the file, which
\* is the totalSize it publishes.
C26_SizeWithinTotal ==
    \A r \in Runs :
        Active(r) =>
            \A i \in 1..Len(runs[r].pubSizes) :
                /\ 0 <= runs[r].pubSizes[i]
                /\ runs[r].pubSizes[i] <= runs[r].size

\* C27: the overall percentage that FolderUpload shows for a batch, computed
\* from the number of uploaded paths and the percentage of the current file,
\* lies between 0 and 100 in every state of a batch upload, also right after
\* a file has completed and after the last file has completed.
C27_FolderOverallBounded ==
    folder.pc # "idle" =>
        FolderOverall(Len(folder.files), Len(folder.uploadedPaths),
                      progress.percentage) \in 0..100

\* the paths the service gave the files of the batch that ended in complete,
\* in the order of the files
RECURSIVE CompletedPaths(_)
CompletedPaths(outcomes) ==
    IF outcomes = <<>> THEN <<>>
    ELSE (IF Head(outcomes).status = "complete"
          THEN <<FilePath(Head(outcomes).uploadId)>> ELSE <<>>)
         \o CompletedPaths(Tail(outcomes))

C29_RunsTerminate ==
    /\ \A r \in Runs : Active(r) ~> ~Active(r)
    /\ [][\A r \in Runs :
             (Active(r) /\ runs'[r].pc = "none") =>
                 /\ progress'.status \in Terminal
                 /\ last'.run = r
                 /\ last'.outcome = progress'.status
                 /\ ~isUploadingRef']_vars
    /\ []((\A r \in Runs : ~Active(r)) => ~isUploadingRef)

\* a resumeUpload run has ended, the flag is released, and an earlier run
\* had ended before it was accepted
C29_Witness ==
    /\ \A r \in Runs : ~Active(r)
    /\ ~isUploadingRef
    /\ last.kind = "resume"
    /\ last.run >= 2
    /\ last.outcome \in Terminal
    /\ progress.status = last.outcome

\* C30: an uploadFile run of a zero-byte file has totalChunks 0 and sends
\* the init request, no chunk request, and then the complete request; when
\* that is answered with success the run ends in status complete with
\* chunksUploaded = chunksTotal = 0, uploadedSize = totalSize = 0 and
\* percentage 100.
C30_EmptyFile ==
    [][\A r \in UploadRuns :
          runs[r].size = 0 =>
              /\ runs[r].totalChunks = 0
              /\ runs[r].reqs \in {<< <<"init", 0>> >>,
                                   << <<"init", 0>>, <<"complete", 0>> >>}
              /\ runs'[r].pc = "none" =>
                    /\ runs[r].reqs = << <<"init", 0>>, <<"complete", 0>> >>
                    /\ last'.run = r
                    /\ last'.outcome = "complete"
                    /\ progress'.status = "complete"
                    /\ progress'.chunksUploaded = 0
                    /\ progress'.chunksTotal = 0
                    /\ progress'.uploadedSize = 0
                    /\ progress'.totalSize = 0
                    /\ progress'.percentage = 100]_vars

\* the upload of a zero-byte file has ended in complete
C30_Witness ==
    /\ \A r \in Runs : ~Active(r)
    /\ last.kind = "upload"
    /\ last.at = "complete"
    /\ last.outcome = "complete"
    /\ last.acks = 0
    /\ progress.status = "complete"
    /\ progress.totalSize = 0
    /\ progress.percentage = 100

====
